---------------------------- MODULE Spec2Model ----------------------------
(***************************************************************************)
(* A model of the application catalog of easy_docker_deploy: the          *)
(* GithubParser (parse, cache file with a timestamp), the ParserService    *)
(* on top of it (cache file aged by its modification time) and the         *)
(* cache_result / clear_cache utilities.                                   *)
(*                                                                         *)
(* Time is counted in hours: cache_ttl = 3600 s = 1, cache_expiry =        *)
(* 24 * 60 * 60 s = 24.                                                    *)
(***************************************************************************)
EXTENDS Integers, Sequences, FiniteSets, TLC

VARIABLES
    now,            \* time.time(), in hours
    sameFile,       \* config.cache_dir is ~/.easy-docker-deploy/cache (the default settings)
    files,          \* the two applications.json paths: "svc" (ParserService), "gh" (GithubParser)
    applications,   \* GithubParser.applications
    last,           \* what the last call did (observation only)
    cacheDir,       \* cache_result / clear_cache: the state of the cache directory
    entries,        \* cache_result / clear_cache: <key>.json files of the cache directory
    wlast,          \* what the last cache_result / clear_cache call did (observation only)
    md,             \* an instance of one of the parsers of markdown_parser.py
    plast,          \* what the last parser call did (observation only)
    vlast,          \* what the last validate_port_mapping call did (observation only)
    scan            \* DeploymentService._get_available_port: the call in progress or finished

vars == <<now, sameFile, files, applications, last, cacheDir, entries, wlast, md, plast,
          vlast, scan>>

(***************************************************************************)
(* Bounds of the model and constants of the program.                       *)
(***************************************************************************)
\* the clock stops at MaxTime
MaxTime == 25

\* the clock runs hour by hour up to Early and from CacheExpiry - 1 on, and
\* jumps over the stretch between them, where no threshold lies
Early == 1

CacheTtl == 1

CacheExpiry == 24

\* Optional[str] fields: Python's None.
None == "<None>"

(***************************************************************************)
(* JSON values as json.dump writes them and json.load reads them.          *)
(***************************************************************************)
JNull == [t |-> "null"]

JStr(s) == [t |-> "str", v |-> s]

JBool(b) == [t |-> "bool", v |-> b]

JNum(n) == [t |-> "num", v |-> n]

\* json encoding of an Optional[str]
EncodeOpt(x) == IF x = None THEN JNull ELSE JStr(x)

\* json decoding of a scalar
Decode(j) == IF j.t = "null" THEN None ELSE j.v

FieldNames ==
    {"name", "description", "category", "language", "license_type",
     "docker_ready", "docker_url", "repository_url", "deployment_guide"}

\* Application.to_dict followed by json.dump
ToDict(app) ==
    [name             |-> JStr(app.name),
     description      |-> JStr(app.description),
     category         |-> JStr(app.category),
     language         |-> EncodeOpt(app.language),
     license_type     |-> EncodeOpt(app.license_type),
     docker_ready     |-> JBool(app.docker_ready),
     docker_url       |-> EncodeOpt(app.docker_url),
     repository_url   |-> EncodeOpt(app.repository_url),
     deployment_guide |-> EncodeOpt(app.deployment_guide)]

\* Application.from_dict raises KeyError when a key is missing
FromDictRaises(data) == ~(FieldNames \subseteq DOMAIN data)

\* a mutant of FromDict: docker_url is read from the repository_url key
FromDictSwapped(data) ==
    [name             |-> Decode(data["name"]),
     description      |-> Decode(data["description"]),
     category         |-> Decode(data["category"]),
     language         |-> Decode(data["language"]),
     license_type     |-> Decode(data["license_type"]),
     docker_ready     |-> Decode(data["docker_ready"]),
     docker_url       |-> Decode(data["repository_url"]),
     repository_url   |-> Decode(data["repository_url"]),
     deployment_guide |-> Decode(data["deployment_guide"])]

\* json.load followed by Application.from_dict
FromDict(data) ==
    [name             |-> Decode(data["name"]),
     description      |-> Decode(data["description"]),
     category         |-> Decode(data["category"]),
     language         |-> Decode(data["language"]),
     license_type     |-> Decode(data["license_type"]),
     docker_ready     |-> Decode(data["docker_ready"]),
     docker_url       |-> Decode(data["docker_url"]),
     repository_url   |-> Decode(data["repository_url"]),
     deployment_guide |-> Decode(data["deployment_guide"])]

\* app.__dict__ followed by json.dump (ParserService._fetch_and_cache)
DunderDict(app) ==
    [k \in FieldNames |->
        CASE k = "name"             -> JStr(app.name)
          [] k = "description"      -> JStr(app.description)
          [] k = "category"         -> JStr(app.category)
          [] k = "language"         -> EncodeOpt(app.language)
          [] k = "license_type"     -> EncodeOpt(app.license_type)
          [] k = "docker_ready"     -> JBool(app.docker_ready)
          [] k = "docker_url"       -> EncodeOpt(app.docker_url)
          [] k = "repository_url"   -> EncodeOpt(app.repository_url)
          [] k = "deployment_guide" -> EncodeOpt(app.deployment_guide)]

\* Application(**app_data) raises TypeError unless the keys are exactly the nine fields
KwargsRaises(data) == DOMAIN data # FieldNames

\* json.load followed by Application(**app_data)
FromKwargs(data) ==
    [name             |-> Decode(data["name"]),
     description      |-> Decode(data["description"]),
     category         |-> Decode(data["category"]),
     language         |-> Decode(data["language"]),
     license_type     |-> Decode(data["license_type"]),
     docker_ready     |-> Decode(data["docker_ready"]),
     docker_url       |-> Decode(data["docker_url"]),
     repository_url   |-> Decode(data["repository_url"]),
     deployment_guide |-> Decode(data["deployment_guide"])]

(***************************************************************************)
(* Text.  A string is kept whole; what the code asks of it (a substring,   *)
(* a regular expression, a change of case) is answered by the tables       *)
(* below for the strings the documents of the model use.                   *)
(***************************************************************************)
\* str.lower()
Lower(s) ==
    CASE s = "Dockerfile" -> "dockerfile"
      [] s = "Docker"     -> "docker"
      [] s = "README.md"  -> "readme.md"
      [] s = "DOCKER"     -> "docker"
      [] s = "Runs in Docker" -> "runs in docker"
      [] s = "Plain wiki" -> "plain wiki"
      [] s = "Plain tool" -> "plain tool"
      [] s = "DOCKER ready" -> "docker ready"
      [] s = "Image at hub.docker.com/r/acme/app" -> "image at hub.docker.com/r/acme/app"
      [] s = "Image at ghcr.io/acme/app" -> "image at ghcr.io/acme/app"
      [] s = "On hub.docker.com/r/acme/app and ghcr.io/acme/app"
             -> "on hub.docker.com/r/acme/app and ghcr.io/acme/app"
      [] s = "https://app3.com/Dockerfile" -> "https://app3.com/dockerfile"
      [] s \in {"Wiki", "WIKI"}     -> "wiki"
      [] s \in {"Media", "MEDIA"}   -> "media"
      [] s = "[Media]"              -> "[media]"
      [] s \in {"Python", "PYTHON"} -> "python"
      [] s = "Go" -> "go"
      [] s = "MIT" -> "mit"
      [] s = "License" -> "license"
      [] s = "Table of Contents" -> "table of contents"
      [] s = "Plain wiki 'Python' [MIT]" -> "plain wiki 'python' [mit]"
      [] s = "A" -> "a"
      [] s = "B" -> "b"
      [] s = "S" -> "s"
      [] s = "T" -> "t"
      [] s = "Z" -> "z"
      [] OTHER            -> s

\* any(keyword in desc_lower for keyword in self.docker_keywords)
HasDockerKeyword(desc_lower) ==
    desc_lower \in {"runs in docker", "docker ready",
                    "image at hub.docker.com/r/acme/app",
                    "on hub.docker.com/r/acme/app and ghcr.io/acme/app"}

\* re.search(docker_hub_pattern, description): group(1), or "" without a match
DockerHubMatch(description) ==
    IF description \in {"Image at hub.docker.com/r/acme/app",
                        "On hub.docker.com/r/acme/app and ghcr.io/acme/app"}
      THEN "acme/app" ELSE ""

\* re.search(ghcr_pattern, description): group(0), or "" without a match
GhcrMatch(description) ==
    IF description \in {"Image at ghcr.io/acme/app",
                        "On hub.docker.com/r/acme/app and ghcr.io/acme/app"}
      THEN "ghcr.io/acme/app" ELSE ""

\* 'dockerfile' in repository_url.lower()
UrlNamesDockerfile(url) == Lower(url) \in {"https://app3.com/dockerfile"}

\* 'github.com' in url
IsGithubUrl(url) == url \in {"https://github.com/acme/tool"}

\* repository_url.split('github.com/')[-1].strip('/'), a trailing '.git' removed
OrgRepo(url) == IF url = "https://github.com/acme/tool" THEN "acme/tool" ELSE url

\* match.group(3).strip().rstrip('.')
StripDescription(d) == IF d = "Runs in Docker." THEN "Runs in Docker" ELSE d

\* The answers requests.get(f"{api_url}/contents") can give: no answer (the
\* request raises), an answer with a status and the names of the listing, or a
\* 200 whose body is no listing (response.json() or item['name'] raises).
\* In the last listing DOCKER is a directory.
ProbeResponses ==
    { [kind |-> "error"],
      [kind |-> "malformed"],
      [kind |-> "http", status |-> 404, names |-> {}],
      [kind |-> "http", status |-> 200, names |-> {"README.md"}],
      [kind |-> "http", status |-> 200, names |-> {"Dockerfile", "README.md"}],
      [kind |-> "http", status |-> 200, names |-> {"docker-compose.yml"}],
      [kind |-> "http", status |-> 200, names |-> {"DOCKER", "README.md"}] }

docker_files == {"Dockerfile", "docker-compose.yml", "docker-compose.yaml", ".docker/", "docker/"}

\* a mutant of CheckDockerAvailability: a probe that fails counts as a find
CheckDockerAvailabilityTrusting(url, resp) ==
    IF ~IsGithubUrl(url) THEN FALSE
    ELSE IF resp.kind \in {"error", "malformed"} THEN TRUE
    ELSE IF resp.status # 200 THEN TRUE
    ELSE LET filenames == {Lower(n) : n \in resp.names}
         IN  \E f \in docker_files : Lower(f) \in filenames

\* GithubParser._check_docker_availability
CheckDockerAvailability(url, resp) ==
    IF ~IsGithubUrl(url) THEN FALSE
    \* except Exception: return False
    ELSE IF resp.kind \in {"error", "malformed"} THEN FALSE
    ELSE IF resp.status # 200 THEN FALSE
    ELSE LET filenames == {Lower(n) : n \in resp.names}
         IN  \E f \in docker_files : Lower(f) \in filenames

\* a mutant of ExtractDockerUrl: without a reference the repository URL is returned
ExtractDockerUrlDefaultsToUrl(description, repository_url, resp) ==
    IF DockerHubMatch(description) # ""
      THEN "https://hub.docker.com/r/" \o DockerHubMatch(description)
    ELSE IF GhcrMatch(description) # "" THEN GhcrMatch(description)
    ELSE repository_url

\* a mutant of ExtractDockerUrl: the ghcr.io reference is looked for first
ExtractDockerUrlGhcrFirst(description, repository_url, resp) ==
    IF GhcrMatch(description) # "" THEN GhcrMatch(description)
    ELSE IF DockerHubMatch(description) # ""
      THEN "https://hub.docker.com/r/" \o DockerHubMatch(description)
    ELSE IF repository_url # None /\ UrlNamesDockerfile(repository_url) THEN repository_url
    ELSE None

\* GithubParser._extract_docker_url; resp answers the probe if it is made
ExtractDockerUrl(description, repository_url, resp) ==
    IF DockerHubMatch(description) # ""
      THEN "https://hub.docker.com/r/" \o DockerHubMatch(description)
    ELSE IF GhcrMatch(description) # "" THEN GhcrMatch(description)
    ELSE IF repository_url # None /\ UrlNamesDockerfile(repository_url) THEN repository_url
    ELSE IF repository_url # None /\ CheckDockerAvailability(repository_url, resp)
              /\ IsGithubUrl(repository_url)
      THEN "ghcr.io/" \o OrgRepo(repository_url)
    ELSE None

\* GithubParser._is_docker_ready; r1 and r2 answer its two probes in turn
IsDockerReady(description, repository_url, r1, r2) ==
    \/ HasDockerKeyword(Lower(description))
    \/ ExtractDockerUrl(description, repository_url, r1) # None
    \/ (repository_url # None /\ UrlNamesDockerfile(repository_url))
    \/ (repository_url # None /\ CheckDockerAvailability(repository_url, r2))

\* how many probes _is_docker_ready made before it returned
ProbesOfIsDockerReady(description, repository_url, r1) ==
    IF HasDockerKeyword(Lower(description)) THEN 0
    ELSE IF DockerHubMatch(description) # "" \/ GhcrMatch(description) # "" THEN 0
    ELSE IF repository_url # None /\ UrlNamesDockerfile(repository_url) THEN 0
    ELSE IF ExtractDockerUrl(description, repository_url, r1) # None THEN 1
    ELSE 2

(***************************************************************************)
(* Documents: the lines of the README after split('\n') and strip().       *)
(***************************************************************************)
Heading(level, title, bracketed) ==
    [kind |-> "heading", level |-> level, title |-> title, bracketed |-> bracketed,
     name |-> "", url |-> "", desc |-> "", lang |-> None, license |-> None]

Entry(name, url, desc, lang, license) ==
    [kind |-> "entry", level |-> 0, title |-> "", bracketed |-> FALSE,
     name |-> name, url |-> url, desc |-> desc, lang |-> lang, license |-> license]

TextLine ==
    [kind |-> "text", level |-> 0, title |-> "", bracketed |-> FALSE,
     name |-> "", url |-> "", desc |-> "", lang |-> None, license |-> None]

\* a line that starts with '- ' and matches none of the patterns
Malformed ==
    [kind |-> "malformed", level |-> 0, title |-> "", bracketed |-> FALSE,
     name |-> "", url |-> "", desc |-> "", lang |-> None, license |-> None]

Documents ==
    { << >>,
      << Heading(3, "Wiki", FALSE),
         Entry("A", "http://a.com", "Plain wiki", "Python", "MIT") >>,
      << Entry("Z", "http://z.com", "Plain wiki", None, None),
         Heading(3, "Media", TRUE),
         TextLine,
         Entry("B", "http://b.com", "Runs in Docker.", None, None),
         Entry("T", "https://github.com/acme/tool", "Plain tool", "Go", None) >> }

\* MarkdownParser.parse_application_line
ParseApplicationLine(line) ==
    [name |-> line.name, url |-> line.url, desc |-> StripDescription(line.desc),
     lang |-> line.lang, license_type |-> line.license]

\* a mutant of MakeApplication: docker_ready is the keyword test alone and
\* docker_url is extracted whether the application is ready or not
MakeApplicationKeywordReady(line, current_category, probes) ==
    LET r == ParseApplicationLine(line)
    IN  [name             |-> r.name,
         description      |-> r.desc,
         category         |-> current_category,
         language         |-> r.lang,
         license_type     |-> r.license_type,
         docker_ready     |-> HasDockerKeyword(Lower(r.desc)),
         docker_url       |-> ExtractDockerUrl(r.desc, r.url, probes[1]),
         repository_url   |-> r.url,
         deployment_guide |-> None]

\* the Application GithubParser.parse_content builds from one entry line;
\* probes: the answers of the repository probes it makes, in order
MakeApplication(line, current_category, probes) ==
    LET r == ParseApplicationLine(line)
        docker_ready == IsDockerReady(r.desc, r.url, probes[1], probes[2])
        k == ProbesOfIsDockerReady(r.desc, r.url, probes[1]) + 1
        docker_url == IF docker_ready THEN ExtractDockerUrl(r.desc, r.url, probes[k])
                      ELSE None
    IN  [name             |-> r.name,
         description      |-> r.desc,
         category         |-> current_category,
         language         |-> r.lang,
         license_type     |-> r.license_type,
         docker_ready     |-> docker_ready,
         docker_url       |-> docker_url,
         repository_url   |-> r.url,
         deployment_guide |-> None]

\* the loop of GithubParser.parse_content from line i on
RECURSIVE ParseLines(_, _, _, _, _)
ParseLines(content, i, current_category, apps, probes) ==
    IF i > Len(content) THEN apps
    ELSE LET line == content[i] IN
         IF line.kind = "heading" /\ line.level >= 3
           THEN ParseLines(content, i + 1, line.title, apps, probes)
         ELSE IF line.kind = "entry" /\ current_category # None /\ current_category # ""
           THEN ParseLines(content, i + 1, current_category,
                           Append(apps, MakeApplication(line, current_category, probes)),
                           probes)
         \* parse_application_line returned None, or the line is no entry
         ELSE ParseLines(content, i + 1, current_category, apps, probes)

\* a mutant of ParseContent: the loop ends at the first line that starts
\* with '- ' and matches no pattern
ParseContentUntilMalformed(content, probes) ==
    LET bad == {i \in 1..Len(content) : content[i].kind = "malformed"}
        n == IF bad = {} THEN Len(content)
             ELSE (CHOOSE i \in bad : \A j \in bad : i <= j) - 1
    IN  ParseLines(SubSeq(content, 1, n), 1, None, << >>, probes)

\* GithubParser.parse_content(content, return_dict=False)
ParseContent(content, probes) == ParseLines(content, 1, None, << >>, probes)

(***************************************************************************)
(* Files.  A file is absent, or has a modification time and a content:     *)
(* text that is not JSON, a JSON array, or a JSON object with some of the  *)
(* members "timestamp" and "applications".                                 *)
(***************************************************************************)
Invalid == [json |-> "invalid", keys |-> {}, timestamp |-> 0, items |-> << >>]

Array(items) == [json |-> "array", keys |-> {}, timestamp |-> 0, items |-> items]

Object(keys, timestamp, items) ==
    [json |-> "object", keys |-> keys, timestamp |-> timestamp, items |-> items]

NoFile == [exists |-> FALSE, mtime |-> 0, data |-> Invalid]

File(mtime, data) == [exists |-> TRUE, mtime |-> mtime, data |-> data]

\* ParserService._cache_file
SvcPath == "svc"

\* GithubParser.cache_file: the same path under the default settings
GhPath == IF sameFile THEN "svc" ELSE "gh"

\* [Application.from_dict(app_data) for app_data in cache_data["applications"]]
FromDictAll(items) == [i \in 1..Len(items) |-> FromDict(items[i])]

\* [app.to_dict() for app in applications]
ToDictAll(apps) == [i \in 1..Len(apps) |-> ToDict(apps[i])]

\* the loop of ParserService._load_from_cache over a list of well-formed records
FromKwargsAll(items) == [i \in 1..Len(items) |-> FromKwargs(items[i])]

\* [app.__dict__ for app in applications]
DunderDictAll(apps) == [i \in 1..Len(apps) |-> DunderDict(apps[i])]

\* GithubParser._load_cache, line 113: time.time() - cache_data["timestamp"] > self.cache_expiry
Expired(timestamp, t) == t - timestamp > CacheExpiry

\* a mutant of LoadCache: a file that is not the expected object raises
LoadCacheRaising(f, t) ==
    IF ~f.exists THEN [hit |-> FALSE, raised |-> FALSE, apps |-> << >>]
    ELSE IF f.data.json # "object" \/ ~({"timestamp", "applications"} \subseteq f.data.keys)
      THEN [hit |-> FALSE, raised |-> TRUE, apps |-> << >>]
    ELSE IF Expired(f.data.timestamp, t) THEN [hit |-> FALSE, raised |-> FALSE, apps |-> << >>]
    ELSE IF \E i \in 1..Len(f.data.items) : FromDictRaises(f.data.items[i])
      THEN [hit |-> FALSE, raised |-> TRUE, apps |-> << >>]
    ELSE [hit |-> TRUE, raised |-> FALSE, apps |-> FromDictAll(f.data.items)]

\* GithubParser._load_cache at time t: hit is "the result is not None"
LoadCache(f, t) ==
    IF ~f.exists THEN [hit |-> FALSE, raised |-> FALSE, apps |-> << >>]
    \* json.load raises: except Exception: return None
    ELSE IF f.data.json = "invalid" THEN [hit |-> FALSE, raised |-> FALSE, apps |-> << >>]
    \* cache_data["timestamp"] raises on a list (TypeError) and on a missing key (KeyError)
    ELSE IF f.data.json # "object" \/ "timestamp" \notin f.data.keys
      THEN [hit |-> FALSE, raised |-> FALSE, apps |-> << >>]
    ELSE IF Expired(f.data.timestamp, t) THEN [hit |-> FALSE, raised |-> FALSE, apps |-> << >>]
    ELSE IF "applications" \notin f.data.keys
      THEN [hit |-> FALSE, raised |-> FALSE, apps |-> << >>]
    ELSE IF \E i \in 1..Len(f.data.items) : FromDictRaises(f.data.items[i])
      THEN [hit |-> FALSE, raised |-> FALSE, apps |-> << >>]
    ELSE [hit |-> TRUE, raised |-> FALSE, apps |-> FromDictAll(f.data.items)]

\* GithubParser._save_cache at time t: the file it writes
SaveCache(apps, t) ==
    File(t, Object({"timestamp", "applications"}, t, ToDictAll(apps)))

\* a mutant of IsCacheValid: the comparison is turned around
IsCacheValidReversed(f, t) == f.exists /\ t - f.mtime > CacheTtl

\* ParserService._is_cache_valid at time t
IsCacheValid(f, t) == f.exists /\ t - f.mtime < CacheTtl

\* ParserService._load_from_cache
LoadFromCache(f) ==
    IF f.data.json = "invalid" THEN [raised |-> TRUE, apps |-> << >>]
    \* for app_data in data: a dict iterates its keys, and Application(**"timestamp") raises
    ELSE IF f.data.json = "object"
      THEN [raised |-> f.data.keys # {}, apps |-> << >>]
    ELSE IF \E i \in 1..Len(f.data.items) : KwargsRaises(f.data.items[i])
      THEN [raised |-> TRUE, apps |-> << >>]
    ELSE [raised |-> FALSE, apps |-> FromKwargsAll(f.data.items)]

\* a mutant of SaveServiceCache: the service writes the record format of
\* GithubParser._save_cache
SaveServiceCacheAsObject(apps, t) ==
    File(t, Object({"timestamp", "applications"}, t, ToDictAll(apps)))

\* ParserService._fetch_and_cache, lines 136-141: the file it writes at time t
SaveServiceCache(apps, t) == File(t, Array(DunderDictAll(apps)))

(***************************************************************************)
(* The calls.  net: whether requests.get(self.base_url) succeeds; disk:    *)
(* whether open(..., 'w') succeeds; content: the document the server has;  *)
(* probes: the answers of the repository probes, in order.                 *)
(***************************************************************************)
NoProbes == [i \in 1..3 |-> [kind |-> "error"]]

HasGithubEntry(content) ==
    \E i \in 1..Len(content) : content[i].kind = "entry" /\ IsGithubUrl(content[i].url)

\* the answers the probes of one parse can get
ProbesFor(content) ==
    IF HasGithubEntry(content) THEN {[i \in 1..3 |-> r] : r \in ProbeResponses}
    ELSE {NoProbes}

\* What one call can get from the network: no answer, or a document, which
\* parse_content turns into fresh, the list of its applications.
Inputs ==
    {[net |-> "fail", fresh |-> << >>]}
    \cup UNION { {[net |-> "ok", fresh |-> ParseContent(c, p)] : p \in ProbesFor(c)} :
                   c \in Documents }

\* GithubParser.fetch_repository, lines 264-276, when requests.get succeeded
FetchRepository(ghFile, t, in, disk) ==
    IF disk = "fail"
      \* _save_cache raises after parse_content has stored self.applications
      THEN [raised |-> TRUE, result |-> << >>, wrote |-> FALSE,
            file |-> ghFile, applications |-> in.fresh]
      ELSE [raised |-> FALSE, result |-> in.fresh, wrote |-> TRUE,
            file |-> SaveCache(in.fresh, t), applications |-> in.fresh]

\* GithubParser.load_applications at time t
LoadApplications(ghFile, apps, t, in, disk) ==
    LET lc == LoadCache(ghFile, t) IN
    IF lc.raised
      THEN [result |-> << >>, hit |-> FALSE, loadRaised |-> TRUE, fetched |-> FALSE,
            fetchFailed |-> FALSE, parsed |-> FALSE, wrote |-> FALSE, swallowed |-> TRUE,
            file |-> ghFile, applications |-> apps]
    ELSE IF lc.hit
      THEN [result |-> lc.apps, hit |-> TRUE, loadRaised |-> FALSE, fetched |-> FALSE,
            fetchFailed |-> FALSE, parsed |-> FALSE, wrote |-> FALSE, swallowed |-> FALSE,
            file |-> ghFile, applications |-> apps]
    ELSE IF in.net = "fail"
      \* fetch_repository raises RuntimeError; except Exception: return []
      THEN [result |-> << >>, hit |-> FALSE, loadRaised |-> FALSE, fetched |-> TRUE,
            fetchFailed |-> TRUE, parsed |-> FALSE, wrote |-> FALSE, swallowed |-> TRUE,
            file |-> ghFile, applications |-> apps]
    ELSE LET fr == FetchRepository(ghFile, t, in, disk) IN
           [result |-> fr.result, hit |-> FALSE, loadRaised |-> FALSE, fetched |-> TRUE,
            fetchFailed |-> FALSE, parsed |-> TRUE, wrote |-> fr.wrote,
            swallowed |-> fr.raised, file |-> fr.file, applications |-> fr.applications]

NoCall ==
    [op |-> "none", force |-> FALSE, net |-> "ok", disk |-> "ok",
     outcome |-> "returned", result |-> << >>, fresh |-> << >>,
     svcValid |-> FALSE, svcDecoded |-> FALSE, svcHit |-> FALSE,
     ghHit |-> FALSE, loadRaised |-> FALSE,
     fetched |-> FALSE, fetchFailed |-> FALSE, parsed |-> FALSE, swallowed |-> FALSE,
     wroteGh |-> FALSE, wroteSvc |-> FALSE, svcSame |-> TRUE, ghSame |-> TRUE,
     arg |-> "", catalog |-> << >>, preApps |-> << >>,
     pre |-> [p \in {"svc", "gh"} |-> NoFile]]

\* ParserService.get_applications(force_refresh)
GetApplications(force, in, disk) ==
    \E la \in {LoadApplications(files[GhPath], applications, now, in, disk)},
       lr \in {LoadFromCache(files[SvcPath])} :
    LET valid == IsCacheValid(files[SvcPath], now)
        files1 == [files EXCEPT ![GhPath] = la.file]
        files2 == [files1 EXCEPT ![SvcPath] = SaveServiceCache(la.result, now)]
        call == [NoCall EXCEPT !.op = "get_applications", !.force = force,
                               !.net = in.net, !.disk = disk,
                               !.pre = files, !.svcValid = valid,
                               !.svcDecoded = files[SvcPath].exists /\ ~lr.raised]
    IN  /\ IF ~force /\ valid /\ ~lr.raised
             THEN /\ last' = [call EXCEPT !.svcHit = TRUE, !.result = lr.apps]
                  /\ UNCHANGED <<files, applications>>
             ELSE /\ applications' = la.applications
                  \* _fetch_and_cache: open(self._cache_file, 'w') raises, the except re-raises
                  /\ files' = IF disk = "fail" THEN files1 ELSE files2
                  /\ last' = [call EXCEPT
                        !.outcome = IF disk = "fail" THEN "raised" ELSE "returned",
                        !.result = IF disk = "fail" THEN << >> ELSE la.result,
                        !.fresh = IF la.parsed THEN in.fresh ELSE << >>,
                        !.ghHit = la.hit, !.loadRaised = la.loadRaised,
                        !.fetched = la.fetched, !.fetchFailed = la.fetchFailed,
                        !.parsed = la.parsed, !.swallowed = la.swallowed,
                        !.wroteGh = la.wrote, !.wroteSvc = (disk # "fail"),
                        !.svcSame = (files'[SvcPath] = files[SvcPath]),
                        !.ghSame = (files'[GhPath] = files[GhPath])]
        /\ UNCHANGED <<now, sameFile, cacheDir, entries, wlast, md, plast, vlast, scan>>

\* GithubParser.load_applications, called on the parser itself
LoadApplicationsCall(in, disk) ==
    \E la \in {LoadApplications(files[GhPath], applications, now, in, disk)} :
        /\ applications' = la.applications
        /\ files' = [files EXCEPT ![GhPath] = la.file]
        /\ last' = [NoCall EXCEPT
              !.op = "load_applications", !.net = in.net, !.disk = disk,
              !.pre = files,
              !.result = la.result,
              !.fresh = IF la.parsed THEN in.fresh ELSE << >>,
              !.ghHit = la.hit, !.loadRaised = la.loadRaised,
              !.fetched = la.fetched, !.fetchFailed = la.fetchFailed,
              !.parsed = la.parsed, !.swallowed = la.swallowed,
              !.wroteGh = la.wrote,
              !.svcSame = (files'[SvcPath] = files[SvcPath]),
              !.ghSame = (files'[GhPath] = files[GhPath])]
        /\ UNCHANGED <<now, sameFile, cacheDir, entries, wlast, md, plast, vlast, scan>>

\* ParserService.clear_cache
ClearServiceCache ==
    /\ files[SvcPath].exists
    /\ files' = [files EXCEPT ![SvcPath] = NoFile]
    /\ last' = [NoCall EXCEPT !.op = "clear_cache", !.svcSame = FALSE, !.pre = files,
                              !.ghSame = (files'[GhPath] = files[GhPath])]
    /\ UNCHANGED <<now, sameFile, applications, cacheDir, entries, wlast, md, plast, vlast, scan>>

(***************************************************************************)
(* The files an earlier run, another program or a crash can have left.     *)
(***************************************************************************)
SampleApp ==
    [name |-> "S", description |-> "Plain wiki", category |-> "Wiki",
     language |-> None, license_type |-> "MIT", docker_ready |-> FALSE,
     docker_url |-> None, repository_url |-> "http://s.com",
     deployment_guide |-> None]

\* a record one key short
BrokenRecord == [name |-> JStr("S"), description |-> JStr("Plain wiki")]

FoundFiles ==
    { NoFile,
      File(0, Invalid),
      SaveServiceCache(<< SampleApp >>, 0),
      File(0, Array(<< BrokenRecord >>)),
      File(0, Object({}, 0, << >>)),
      File(0, Object({"timestamp"}, 0, << >>)),
      SaveCache(<< SampleApp >>, 0),
      File(0, Object({"timestamp", "applications"}, 0, << BrokenRecord >>)) }

(***************************************************************************)
(* parser/markdown_parser.py: MarkdownParser and its own GithubParser.  An *)
(* instance holds the applications, the categories (a dict from a category *)
(* to the applications under it) and, in MarkdownParser, _content_loaded.  *)
(***************************************************************************)
\* __init__ of the class impl ("MarkdownParser" or "GithubParser")
NewParser(impl) ==
    [impl |-> impl, applications |-> << >>, categories |-> << >>, loaded |-> FALSE]

NoParseCall ==
    [op |-> "none", impl |-> "", content |-> << >>, probes |-> NoProbes,
     warnings |-> 0, result |-> << >>, query |-> "",
     pre |-> NewParser("MarkdownParser"), preApps |-> << >>]

\* line.lower().startswith(header) for header in ['# license', '## license']
IsLicenseHeader(line) ==
    /\ line.kind = "heading" /\ line.level \in {1, 2} /\ ~line.bracketed
    /\ Lower(line.title) \in {"license"}

\* line.lower().startswith(header) for header in ['# table of contents', '## table of contents']
IsTocHeader(line) ==
    /\ line.kind = "heading" /\ line.level \in {1, 2} /\ ~line.bracketed
    /\ Lower(line.title) \in {"table of contents"}

\* self.category_pattern.match(line): GithubParser has '^#+\s+(.+?)\s*$',
\* MarkdownParser has '^## \[?([^\]]+)\]?'
MdCategoryMatches(impl, line) ==
    /\ line.kind = "heading"
    /\ (impl = "MarkdownParser" => line.level = 2)

\* category_match.group(1): GithubParser keeps the brackets of '[Title]'
MdCategory(impl, line) ==
    IF impl = "GithubParser" /\ line.bracketed THEN "[" \o line.title \o "]"
    ELSE line.title

\* app_match.group(3), cleaned up: the pattern of markdown_parser.py has no
\* group for a '[license]' tag, so with such a tag the lazy group(3) runs to the
\* end of the line and takes the tags in (the backquotes around the language
\* are written ' here)
MdDescription(line) ==
    IF line.license = None THEN StripDescription(line.desc)
    ELSE IF line.lang = None THEN line.desc \o " [" \o line.license \o "]"
    ELSE line.desc \o " '" \o line.lang \o "' [" \o line.license \o "]"

\* app_match.group(4)
MdLicenseInfo(line) == IF line.license = None THEN line.lang ELSE None

\* any(keyword in description.lower() for keyword in ['docker', 'container', 'containerized'])
MdDockerReady(description) == HasDockerKeyword(Lower(description))

\* markdown_parser.Application as parse_content builds it
MdApplication(line, current_category) ==
    [name           |-> line.name,
     url            |-> line.url,
     description    |-> MdDescription(line),
     category       |-> current_category,
     license_info   |-> MdLicenseInfo(line),
     docker_ready   |-> MdDockerReady(MdDescription(line)),
     repository_url |-> None,
     docker_url     |-> None,
     language       |-> None,
     license_type   |-> None]

\* if current_category not in self.categories: self.categories[current_category] = []
WithCategory(cats, c) == IF c \in DOMAIN cats THEN cats ELSE (c :> << >>) @@ cats

\* the loop of parse_content (both classes) from line i on; st holds the
\* locals and what the loop has stored and warned so far
RECURSIVE MdParseLines(_, _, _, _)
MdParseLines(impl, content, i, st) ==
    IF i > Len(content) THEN st
    ELSE LET line == content[i] IN
         IF IsLicenseHeader(line)
           THEN MdParseLines(impl, content, i + 1, [st EXCEPT !.lic = TRUE])
         ELSE IF IsTocHeader(line)
           THEN MdParseLines(impl, content, i + 1, [st EXCEPT !.toc = TRUE])
         ELSE LET st1 == IF line.kind = "heading"
                           THEN [st EXCEPT !.lic = FALSE, !.toc = FALSE] ELSE st
              IN  IF st1.lic \/ st1.toc THEN MdParseLines(impl, content, i + 1, st1)
                  ELSE IF MdCategoryMatches(impl, line)
                    THEN MdParseLines(impl, content, i + 1,
                           [st1 EXCEPT !.cur = MdCategory(impl, line),
                                       !.cats = WithCategory(@, MdCategory(impl, line))])
                  ELSE IF line.kind = "entry" /\ st1.cur # None
                    THEN MdParseLines(impl, content, i + 1,
                           [st1 EXCEPT !.apps = Append(@, MdApplication(line, st1.cur)),
                                       !.cats = [@ EXCEPT ![st1.cur] =
                                                   Append(@, MdApplication(line, st1.cur))]])
                  \* an entry outside of a category: GithubParser warns at line 105,
                  \* MarkdownParser falls through to the warning of line 291
                  ELSE IF line.kind = "entry"
                    THEN MdParseLines(impl, content, i + 1, [st1 EXCEPT !.warn = @ + 1])
                  \* line.startswith('-') and not line.startswith('---'): a warning
                  ELSE IF line.kind = "malformed"
                    THEN MdParseLines(impl, content, i + 1, [st1 EXCEPT !.warn = @ + 1])
                  ELSE MdParseLines(impl, content, i + 1, st1)

\* parse_content(content) on the instance p: the instance after the call and
\* the warnings the call gave
MdParseContent(p, content) ==
    IF p.impl = "MarkdownParser" /\ p.loaded THEN [parser |-> p, warnings |-> 0]
    ELSE LET st == MdParseLines(p.impl, content, 1,
                       [apps |-> p.applications, cats |-> p.categories, cur |-> None,
                        lic |-> FALSE, toc |-> FALSE, warn |-> 0])
         IN  [parser |-> [impl |-> p.impl, applications |-> st.apps, categories |-> st.cats,
                          loaded |-> (p.impl = "MarkdownParser")],
              warnings |-> st.warn]

(***************************************************************************)
(* The parse_content calls, on an instance of one of the three classes.    *)
(* md.impl says which: "MarkdownParser" and "GithubParser" are the classes *)
(* of markdown_parser.py, whose instance is md; the class of               *)
(* github_parser.py keeps its list in applications.                        *)
(***************************************************************************)
\* the most applications an instance may hold when another parse begins
MaxApps == 3

\* a document that is one entry line and nothing else
UncategorizedDocument == << Entry("A", "http://a.com", "Plain wiki", "Python", "MIT") >>

HeuristicDescriptions ==
    {"Plain wiki", "Runs in Docker.", "DOCKER ready",
     "Image at hub.docker.com/r/acme/app", "Image at ghcr.io/acme/app",
     "On hub.docker.com/r/acme/app and ghcr.io/acme/app"}

HeuristicUrls == {"http://a.com", "https://github.com/acme/tool", "https://app3.com/Dockerfile"}

\* one entry under a header, for every description and every URL
HeuristicDocuments ==
    { << Heading(3, "Wiki", FALSE), Entry("A", u, d, None, None) >> :
          u \in HeuristicUrls, d \in HeuristicDescriptions }

\* documents with headers of both levels, a license section, a table of
\* contents, and lines that match no pattern
SectionDocuments ==
    { << Heading(3, "Media", TRUE),
         Entry("B", "http://b.com", "Runs in Docker.", None, None),
         Heading(2, "Wiki", FALSE),
         Entry("A", "http://a.com", "Plain wiki", "Python", "MIT") >>,
      << Heading(3, "Wiki", FALSE),
         Entry("A", "http://a.com", "Plain wiki", "Python", "MIT"),
         Heading(2, "License", FALSE),
         Entry("Z", "http://z.com", "Plain wiki", None, None),
         Heading(3, "Media", TRUE),
         Entry("B", "http://b.com", "Runs in Docker.", None, None) >>,
      << Heading(3, "Wiki", FALSE),
         Heading(2, "Table of Contents", FALSE),
         Entry("Z", "http://z.com", "Plain wiki", None, None),
         Entry("A", "http://a.com", "Plain wiki", "Python", "MIT") >>,
      << Malformed,
         Heading(3, "Wiki", FALSE),
         Malformed,
         Entry("A", "http://a.com", "Plain wiki", "Python", "MIT"),
         TextLine,
         Malformed,
         Entry("T", "https://github.com/acme/tool", "Plain tool", "Go", None),
         Malformed >>,
      << Heading(3, "Wiki", FALSE),
         Entry("T", "https://github.com/acme/tool", "Plain tool", "Go", None),
         Entry("A", "http://a.com", "Plain wiki", "Python", "MIT") >> }

\* what GithubParser.parse_content of github_parser.py can be given
ParseInputs ==
    UNION { {[content |-> c, probes |-> p] : p \in ProbesFor(c)} :
              c \in Documents \cup HeuristicDocuments \cup SectionDocuments
                     \cup {UncategorizedDocument} }

\* what parse_content of markdown_parser.py can be given
MdDocuments ==
    Documents \cup SectionDocuments \cup
    { UncategorizedDocument,
      << Heading(2, "Wiki", FALSE),
         Entry("A", "http://a.com", "Plain wiki", "Python", "MIT"),
         Entry("B", "http://b.com", "Runs in Docker.", None, None) >>,
      << Heading(2, "License", FALSE),
         Entry("Z", "http://z.com", "Plain wiki", None, None),
         Heading(2, "Media", TRUE),
         Entry("T", "https://github.com/acme/tool", "Plain tool", "Go", None) >> }

\* GithubParser.parse_content(content) of github_parser.py; it gives no warning
ParseContentCall(content, probes) ==
    /\ md.impl = "github_parser.GithubParser"
    /\ applications' = ParseContent(content, probes)
    /\ plast' = [NoParseCall EXCEPT !.op = "parse_content", !.impl = md.impl,
                                    !.content = content, !.probes = probes,
                                    !.pre = md, !.warnings = 0,
                                    !.result = applications']
    /\ UNCHANGED <<now, sameFile, files, last, cacheDir, entries, wlast, md, vlast, scan>>

\* parse_content(content) of MarkdownParser or of the GithubParser of markdown_parser.py
MdParseContentCall(content) ==
    /\ md.impl \in {"MarkdownParser", "GithubParser"}
    /\ Len(md.applications) <= MaxApps
    /\ \E r \in {MdParseContent(md, content)} :
          /\ md' = r.parser
          /\ plast' = [NoParseCall EXCEPT !.op = "parse_content", !.impl = md.impl,
                                          !.content = content, !.pre = md,
                                          !.warnings = r.warnings,
                                          !.result = r.parser.applications]
    /\ UNCHANGED <<now, sameFile, files, applications, last, cacheDir, entries, wlast, vlast, scan>>

\* GithubParser.clear_cache of markdown_parser.py (MarkdownParser has no reset)
MdClearCache ==
    /\ md.impl = "GithubParser"
    /\ md' = NewParser("GithubParser")
    /\ plast' = [NoParseCall EXCEPT !.op = "clear_cache", !.impl = md.impl, !.pre = md]
    /\ UNCHANGED <<now, sameFile, files, applications, last, cacheDir, entries, wlast, vlast, scan>>

(***************************************************************************)
(* The reads of the catalog: search, by category, Docker-ready.            *)
(***************************************************************************)
\* query in field, for a lower-cased query and a lower-cased field
Contains(field, query) ==
    \/ field = query
    \/ <<field, query>> \in {<<"plain wiki", "wiki">>, <<"runs in docker", "docker">>,
                             <<"plain wiki 'python' [mit]", "wiki">>,
                             <<"plain wiki 'python' [mit]", "python">>}

\* Application.matches_search of github_parser.py
MatchesSearch(app, query) ==
    \E field \in {Lower(app.name), Lower(app.description),
                   IF app.language # None THEN Lower(app.language) ELSE "",
                   Lower(app.category)} :
        Contains(field, Lower(query))

\* Application.matches_search of markdown_parser.py
MdMatchesSearch(app, query) ==
    \/ Contains(Lower(app.name), Lower(query))
    \/ Contains(Lower(app.description), Lower(query))
    \/ Contains(Lower(app.category), Lower(query))

\* [app for app in applications if app.matches_search(query)]
SearchApplications(apps, query) == SelectSeq(apps, LAMBDA app : MatchesSearch(app, query))

\* GithubParser.get_applications_by_category: app.category.lower() == category.lower()
ByCategory(apps, category) ==
    SelectSeq(apps, LAMBDA app : Lower(app.category) = Lower(category))

\* ParserService.get_applications_by_category: app.category == category
ServiceByCategory(apps, category) == SelectSeq(apps, LAMBDA app : app.category = category)

\* [app for app in applications if app.docker_ready]
DockerReady(apps) == SelectSeq(apps, LAMBDA app : app.docker_ready = TRUE)

\* what a read can get from the network: no answer, or one of two documents
ReadInputs ==
    {in \in Inputs : in.net = "fail" \/ (Len(in.fresh) > 0 /\ in.fresh[1].name = "A")
                                     \/ (Len(in.fresh) > 1 /\ in.fresh[2].docker_url # None)}

\* the queries and the category names of the model
Queries == {"python", "PYTHON", "wiki", "docker"}

CategoryArgs == {"Wiki", "wiki", "MEDIA"}

\* a read of GithubParser: the list is computed from self.applications, and
\* nothing is assigned
ParserRead(op, arg, result) ==
    /\ last' = [NoCall EXCEPT !.op = op, !.arg = arg, !.pre = files,
                              !.preApps = applications, !.catalog = applications,
                              !.result = result]
    /\ plast' = NoParseCall
    /\ UNCHANGED <<now, sameFile, files, applications, cacheDir, entries, wlast, md, vlast, scan>>

\* GithubParser.search_applications(query)
GhSearchApplications(query) ==
    ParserRead("GithubParser.search_applications", query,
               SearchApplications(applications, query))

\* GithubParser.get_applications_by_category(category)
GhGetApplicationsByCategory(category) ==
    ParserRead("GithubParser.get_applications_by_category", category,
               ByCategory(applications, category))

\* GithubParser.get_docker_ready_applications()
GhGetDockerReadyApplications ==
    ParserRead("GithubParser.get_docker_ready_applications", "", DockerReady(applications))

\* the list a read of ParserService makes of what get_applications returned
ServiceFilter(op, arg, apps) ==
    CASE op = "ParserService.search_applications" -> SearchApplications(apps, arg)
      [] op = "ParserService.get_applications_by_category" -> ServiceByCategory(apps, arg)
      [] op = "ParserService.get_docker_ready_applications" -> DockerReady(apps)

\* a read of ParserService: apps = self.get_applications(), then the filter
ServiceRead(op, arg, in, disk) ==
    \E la \in {LoadApplications(files[GhPath], applications, now, in, disk)},
       lr \in {LoadFromCache(files[SvcPath])} :
    LET hit == IsCacheValid(files[SvcPath], now) /\ ~lr.raised
        files1 == [files EXCEPT ![GhPath] = la.file]
        files2 == [files1 EXCEPT ![SvcPath] = SaveServiceCache(la.result, now)]
        raised == ~hit /\ disk = "fail"
        apps == IF hit THEN lr.apps ELSE IF raised THEN << >> ELSE la.result
    IN  /\ IF hit THEN UNCHANGED <<files, applications>>
           ELSE /\ applications' = la.applications
                /\ files' = IF disk = "fail" THEN files1 ELSE files2
        /\ last' = [NoCall EXCEPT
              !.op = op, !.arg = arg, !.net = in.net, !.disk = disk,
              !.pre = files, !.preApps = applications,
              !.svcValid = IsCacheValid(files[SvcPath], now), !.svcHit = hit,
              !.outcome = IF raised THEN "raised" ELSE "returned",
              !.catalog = apps,
              !.result = IF raised THEN << >> ELSE ServiceFilter(op, arg, apps),
              !.ghHit = ~hit /\ la.hit,
              !.fetched = ~hit /\ la.fetched,
              !.fetchFailed = ~hit /\ la.fetchFailed,
              !.parsed = ~hit /\ la.parsed,
              !.wroteGh = ~hit /\ la.wrote,
              !.wroteSvc = ~hit /\ disk # "fail"]
        /\ plast' = NoParseCall
        /\ UNCHANGED <<now, sameFile, cacheDir, entries, wlast, md, vlast, scan>>

\* ParserService.search_applications(query)
ServiceSearchApplications(query, in, disk) ==
    ServiceRead("ParserService.search_applications", query, in, disk)

\* ParserService.get_applications_by_category(category)
ServiceGetApplicationsByCategory(category, in, disk) ==
    ServiceRead("ParserService.get_applications_by_category", category, in, disk)

\* ParserService.get_docker_ready_applications()
ServiceGetDockerReadyApplications(in, disk) ==
    ServiceRead("ParserService.get_docker_ready_applications", "", in, disk)

\* instances of the Application of markdown_parser.py
MdSampleApplications ==
    { [name |-> "A", url |-> "http://a.com", description |-> "Plain wiki",
       category |-> "Wiki", license_info |-> None, docker_ready |-> FALSE,
       repository_url |-> None, docker_url |-> None, language |-> l,
       license_type |-> None] : l \in {None, "Python"} }

\* app.matches_search(query) on an Application of markdown_parser.py
MdMatchesSearchCall(app, query) ==
    /\ plast' = [NoParseCall EXCEPT !.op = "matches_search",
                                    !.impl = "markdown_parser.Application",
                                    !.query = query, !.preApps = << app >>,
                                    !.result = IF MdMatchesSearch(app, query)
                                                 THEN << app >> ELSE << >>]
    /\ last' = NoCall
    /\ UNCHANGED <<now, sameFile, files, applications, cacheDir, entries, wlast, md, vlast, scan>>

(***************************************************************************)
(* utils/caching.py: cache_result and clear_cache.  The cache directory is *)
(* a directory ("dir"), missing, or a path that is not a directory         *)
(* ("file"); entries[key] is the file <key>.json in it.                    *)
(***************************************************************************)
\* the default ttl of cache_result, in hours
WrapTtl == 1

\* the keys the decorated functions of the model use
WrapKeys == {"a", "b"}

\* what clear_cache can be given as cache_key
ClearKeys == {None, "", "a", "b"}

\* what one invocation of the decorated function does
FnOutcomes ==
    { [kind |-> "value", v |-> "v1"],
      [kind |-> "value", v |-> "v2"],
      [kind |-> "unserializable", v |-> "obj"],
      [kind |-> "raise", v |-> ""] }

\* an entry file: absent, text that is not JSON, or the JSON of a value
NoEntry == [exists |-> FALSE, mtime |-> 0, json |-> FALSE, v |-> ""]

CorruptEntry(t) == [exists |-> TRUE, mtime |-> t, json |-> FALSE, v |-> ""]

ValueEntry(t, v) == [exists |-> TRUE, mtime |-> t, json |-> TRUE, v |-> v]

NoWrapCall ==
    [op |-> "none", key |-> None, disk |-> "ok", first |-> "value",
     outcome |-> "returned", result |-> "", calls |-> 0, hit |-> FALSE, stored |-> FALSE, deleted |-> {},
     f1 |-> [kind |-> "value", v |-> ""], f2 |-> [kind |-> "value", v |-> ""],
     preDir |-> "dir", pre |-> [k \in WrapKeys |-> NoEntry]]

\* a mutant of Fallback: the except branch raises the cache error again
FallbackReraising(call, f, calls) ==
    [call EXCEPT !.calls = calls - 1, !.outcome = "raised", !.result = ""]

\* the except branch of the wrapper, line 94: return func(*args, **kwargs)
Fallback(call, f, calls) ==
    [call EXCEPT !.calls = calls,
                 !.outcome = IF f.kind = "raise" THEN "raised" ELSE "returned",
                 !.result = f.v]

\* a mutant of CacheFresh: an entry exactly ttl old is still served
CacheFreshAtTtl(e, t) == e.exists /\ t - e.mtime <= WrapTtl

\* cache_result.wrapper, lines 55-57: cache_file.exists() and cache_age < ttl
CacheFresh(e, t) == e.exists /\ t - e.mtime < WrapTtl

\* cache_result.wrapper, lines 76-77: json.dump(result) into <key>.json
StoreResult(es, key, t, v) == [es EXCEPT ![key] = ValueEntry(t, v)]

\* cache_result.wrapper for a function decorated with cache_key = key;
\* f1 and f2 are what the first and the second invocation of func do
Wrapper(key, f1, f2, disk) ==
    LET call == [NoWrapCall EXCEPT !.op = "wrapper", !.key = key, !.disk = disk,
                                   !.first = f1.kind, !.f1 = f1, !.f2 = f2,
                                   !.preDir = cacheDir, !.pre = entries]
        e == entries[key]
    IN  /\ IF cacheDir = "file"
             \* cache_path.mkdir raises FileExistsError
             THEN /\ wlast' = Fallback(call, f1, 1)
                  /\ UNCHANGED <<cacheDir, entries>>
           ELSE IF CacheFresh(e, now)
             THEN /\ IF e.json
                       THEN wlast' = [call EXCEPT !.hit = TRUE, !.result = e.v]
                       \* json.load raises
                       ELSE wlast' = Fallback(call, f1, 1)
                  /\ UNCHANGED <<cacheDir, entries>>
           ELSE IF f1.kind = "raise"
             \* func raises inside the try
             THEN /\ wlast' = Fallback(call, f2, 2)
                  /\ cacheDir' = "dir"
                  /\ UNCHANGED entries
           ELSE IF disk = "fail"
             \* open(cache_file, 'w') raises
             THEN /\ wlast' = Fallback(call, f2, 2)
                  /\ cacheDir' = "dir"
                  /\ UNCHANGED entries
           ELSE IF f1.kind = "unserializable"
             \* json.dump raises after open(cache_file, 'w') has emptied the file
             THEN /\ wlast' = Fallback(call, f2, 2)
                  /\ cacheDir' = "dir"
                  /\ entries' = [entries EXCEPT ![key] = CorruptEntry(now)]
           ELSE /\ wlast' = [call EXCEPT !.calls = 1, !.stored = TRUE, !.result = f1.v]
                /\ cacheDir' = "dir"
                /\ entries' = StoreResult(entries, key, now, f1.v)
        /\ UNCHANGED <<now, sameFile, files, applications, last, md, plast, vlast, scan>>

\* a mutant of ClearedEntries: every entry is removed whatever the key
ClearedEntriesAll(es, cache_key) == [k \in WrapKeys |-> NoEntry]

\* clear_cache, lines 128-147: the entries left when no unlink fails;
\* "if cache_key:" takes None and the empty string for no key
ClearedEntries(es, cache_key) ==
    IF cache_key # None /\ cache_key # ""
      THEN [k \in WrapKeys |-> IF k = cache_key THEN NoEntry ELSE es[k]]
      ELSE [k \in WrapKeys |-> NoEntry]

\* a mutant of CachePathRefused: a path that does not exist is let through
CachePathRefusedIfFile(dir) == dir = "file"

\* clear_cache, lines 117-126: the path does not exist or is not a directory
CachePathRefused(dir) == dir # "dir"

\* clear_cache(cache_key)
ClearCache(cache_key, disk) ==
    LET call == [NoWrapCall EXCEPT !.op = "clear_cache", !.key = cache_key, !.disk = disk,
                                   !.preDir = cacheDir, !.pre = entries]
        targets == {k \in WrapKeys : entries[k].exists
                                       /\ ClearedEntries(entries, cache_key)[k] = NoEntry}
    IN  /\ IF CachePathRefused(cacheDir)
             \* the path does not exist or is not a directory: CacheError
             THEN /\ wlast' = [call EXCEPT !.outcome = "raised"]
                  /\ UNCHANGED entries
           ELSE IF disk = "fail" /\ targets # {}
             \* the first unlink raises: CacheError
             THEN /\ wlast' = [call EXCEPT !.outcome = "raised"]
                  /\ UNCHANGED entries
           ELSE /\ wlast' = [call EXCEPT !.deleted = targets]
                /\ entries' = ClearedEntries(entries, cache_key)
        /\ UNCHANGED <<now, sameFile, files, applications, last, cacheDir, md, plast, vlast, scan>>

\* time passes between two calls
Tick ==
    /\ now < MaxTime
    /\ now' = IF now = Early THEN CacheExpiry - 1 ELSE now + 1
    /\ last' = [NoCall EXCEPT !.op = "tick"]
    /\ wlast' = [NoWrapCall EXCEPT !.op = "tick"]
    /\ UNCHANGED <<sameFile, files, applications, cacheDir, entries, md, plast, vlast, scan>>

(***************************************************************************)
(* utils/validation.py: validate_port_mapping.  The argument is None, an   *)
(* int, a bool (bool is a subclass of int: True is 1 and False is 0), a    *)
(* str, or a value of another type (a float, bytes, a list).  A str is     *)
(* given by its parts, port.split(":"); a part is text int() takes (a      *)
(* numeral, or a numeral with blanks, a sign or underscores, which int()   *)
(* reads as the same number) or text int() raises ValueError for.          *)
(***************************************************************************)
MinPortNumber == 1

MaxPortNumber == 65535

NoneArg == [type |-> "None", value |-> 0, parts |-> << >>]

IntArg(n) == [type |-> "int", value |-> n, parts |-> << >>]

BoolArg(n) == [type |-> "bool", value |-> n, parts |-> << >>]

StrArg(parts) == [type |-> "str", value |-> 0, parts |-> parts]

OtherArg == [type |-> "other", value |-> 0, parts |-> << >>]

\* a part int() takes: '80'
Numeral(n) == [numeric |-> TRUE, value |-> n, text |-> "numeral"]

\* a part int() takes and normalises: ' 80', '+80', '8_0'
PaddedNumeral(n) == [numeric |-> TRUE, value |-> n, text |-> "padded"]

\* parts int() raises ValueError for: 'abc' and ''
Word == [numeric |-> FALSE, value |-> 0, text |-> "abc"]

Empty == [numeric |-> FALSE, value |-> 0, text |-> ""]

PortValues == {-1, 0, 1, 80, 8080, 65535, 65536}

PortParts == {Numeral(n) : n \in PortValues} \cup {PaddedNumeral(80), Word, Empty}

\* what validate_port_mapping can be given
PortArguments ==
    {NoneArg, OtherArg, BoolArg(0), BoolArg(1)}
    \cup {IntArg(n) : n \in PortValues}
    \cup {StrArg(<<a>>) : a \in PortParts}
    \cup {StrArg(<<a, b>>) : a, b \in PortParts}
    \cup {StrArg(<<a, Numeral(80), b>>) : a, b \in {Numeral(80), Numeral(8080)}}

\* one side of the returned 'host:container' text: the numeral of n, or,
\* for a bool formatted by the f-string, the word 'True'
Side(type, n) == [numeral |-> (type # "bool"), n |-> n]

NoSide == [numeral |-> FALSE, n |-> 0]

\* 1 <= port <= 65535
InPortRange(n) == MinPortNumber <= n /\ n <= MaxPortNumber

\* validate_port_mapping(port)
ValidatePortMapping(port) ==
    IF port.type = "None"
      THEN [outcome |-> "None", host |-> NoSide, container |-> NoSide]
    \* isinstance(port, int) holds for a bool as well
    ELSE IF port.type \in {"int", "bool"}
      THEN IF ~InPortRange(port.value)
             THEN [outcome |-> "ValidationError", host |-> NoSide, container |-> NoSide]
             \* f"{port}:80"
             ELSE [outcome |-> "returned", host |-> Side(port.type, port.value),
                   container |-> Side("int", 80)]
    ELSE IF port.type = "str"
      THEN IF Len(port.parts) # 2
             THEN [outcome |-> "ValidationError", host |-> NoSide, container |-> NoSide]
           \* map(int, parts) raises ValueError, which becomes a ValidationError
           ELSE IF ~port.parts[1].numeric \/ ~port.parts[2].numeric
             THEN [outcome |-> "ValidationError", host |-> NoSide, container |-> NoSide]
           ELSE IF ~(InPortRange(port.parts[1].value) /\ InPortRange(port.parts[2].value))
             THEN [outcome |-> "ValidationError", host |-> NoSide, container |-> NoSide]
             \* f"{host_port}:{container_port}"
             ELSE [outcome |-> "returned", host |-> Side("int", port.parts[1].value),
                   container |-> Side("int", port.parts[2].value)]
    ELSE [outcome |-> "ValidationError", host |-> NoSide, container |-> NoSide]

NoValidation ==
    [op |-> "none", port |-> NoneArg, outcome |-> "None", host |-> NoSide,
     container |-> NoSide]

\* a call validate_port_mapping(port)
ValidatePortMappingCall(port) ==
    /\ \E r \in {ValidatePortMapping(port)} :
          vlast' = [op |-> "validate_port_mapping", port |-> port, outcome |-> r.outcome,
                    host |-> r.host, container |-> r.container]
    /\ UNCHANGED <<now, sameFile, files, applications, last, cacheDir, entries, wlast, md,
                   plast, scan>>

(***************************************************************************)
(* services/deployment_service.py: _get_available_port.  free is the set   *)
(* of ports s.bind(('', port)) succeeds for while the call runs; a step is *)
(* one test of the while condition with the body that follows it.          *)
(***************************************************************************)
\* how many ports lie above the first one in the configured range
ScanWidth == 2

\* Settings.default_port_range, (8000, 9000) unless configured otherwise
default_port_range == <<8000, 8000 + ScanWidth>>

\* the ports around the range: one below it and two above it
ScanPorts == (default_port_range[1] - 1)..(default_port_range[2] + 2)

NoScan ==
    [pc |-> "idle", start_port |-> 0, port |-> 0, max_port |-> 0, free |-> {}, result |-> 0]

\* a mutant of WhileCondition: the last port of the range is never tried
WhileConditionExclusive(port, max_port) == port < max_port

\* while port <= max_port
WhileCondition(port, max_port) == port <= max_port

\* s.bind(('', port)) raises no OSError
Bind(port, free) == port \in free

\* _get_available_port(start_port) is called: lines 251-252
GetAvailablePortCall(start_port, free) ==
    /\ scan.pc # "scanning"
    /\ scan' = [pc |-> "scanning", start_port |-> start_port, port |-> start_port,
                max_port |-> default_port_range[2], free |-> free, result |-> 0]
    /\ UNCHANGED <<now, sameFile, files, applications, last, cacheDir, entries, wlast, md,
                   plast, vlast>>

\* one turn of the loop, or the raise after it: lines 254-262
ScanStep ==
    /\ scan.pc = "scanning"
    /\ scan' = IF WhileCondition(scan.port, scan.max_port)
                 THEN IF Bind(scan.port, scan.free)
                        THEN [scan EXCEPT !.pc = "returned", !.result = scan.port]
                        ELSE [scan EXCEPT !.port = @ + 1]
                 ELSE [scan EXCEPT !.pc = "PortAllocationError"]
    /\ UNCHANGED <<now, sameFile, files, applications, last, cacheDir, entries, wlast, md,
                   plast, vlast>>

\* the entry files an earlier run or a crash can have left
FoundEntries == {NoEntry, CorruptEntry(0), ValueEntry(0, "v0")}

InitWrap ==
    /\ now = 0
    /\ sameFile = TRUE
    /\ files = [p \in {"svc", "gh"} |-> NoFile]
    /\ applications = << >>
    /\ last = NoCall
    /\ cacheDir \in {"dir", "missing", "file"}
    /\ entries \in [WrapKeys -> FoundEntries]
    /\ (cacheDir # "dir" => entries = [k \in WrapKeys |-> NoEntry])
    /\ wlast = NoWrapCall
    /\ md = NewParser("MarkdownParser")
    /\ plast = NoParseCall
    /\ vlast = NoValidation
    /\ scan = NoScan

NextWrap ==
    \/ \E key \in WrapKeys, f1 \in FnOutcomes, f2 \in FnOutcomes, disk \in {"ok", "fail"} :
          Wrapper(key, f1, f2, disk)
    \/ \E cache_key \in ClearKeys, disk \in {"ok", "fail"} : ClearCache(cache_key, disk)
    \/ Tick

SpecWrap == InitWrap /\ [][NextWrap]_vars

InitParse ==
    /\ now = 0
    /\ sameFile = TRUE
    /\ files = [p \in {"svc", "gh"} |-> NoFile]
    /\ applications = << >>
    /\ last = NoCall
    /\ cacheDir = "dir"
    /\ entries = [k \in WrapKeys |-> NoEntry]
    /\ wlast = NoWrapCall
    /\ md \in {NewParser(impl) : impl \in {"MarkdownParser", "GithubParser",
                                            "github_parser.GithubParser"}}
    /\ plast = NoParseCall
    /\ vlast = NoValidation
    /\ scan = NoScan

NextParse ==
    \/ \E in \in ParseInputs : ParseContentCall(in.content, in.probes)
    \/ \E content \in MdDocuments : MdParseContentCall(content)
    \/ MdClearCache

SpecParse == InitParse /\ [][NextParse]_vars

\* the catalog is read under the default settings; the cache file is absent
\* or holds what the service saved
InitRead ==
    /\ now = 0
    /\ sameFile = TRUE
    /\ files \in {[p \in {"svc", "gh"} |-> NoFile],
                  [p \in {"svc", "gh"} |->
                      IF p = "svc" THEN SaveServiceCache(<< SampleApp >>, 0) ELSE NoFile]}
    /\ applications = << >>
    /\ last = NoCall
    /\ cacheDir = "dir"
    /\ entries = [k \in WrapKeys |-> NoEntry]
    /\ wlast = NoWrapCall
    /\ md = NewParser("MarkdownParser")
    /\ plast = NoParseCall
    /\ vlast = NoValidation
    /\ scan = NoScan

NextRead ==
    \/ \E in \in ReadInputs, disk \in {"ok", "fail"} : LoadApplicationsCall(in, disk)
    \/ \E query \in Queries : GhSearchApplications(query)
    \/ \E category \in CategoryArgs : GhGetApplicationsByCategory(category)
    \/ GhGetDockerReadyApplications
    \/ \E query \in Queries, in \in ReadInputs, disk \in {"ok", "fail"} :
          ServiceSearchApplications(query, in, disk)
    \/ \E category \in CategoryArgs, in \in ReadInputs, disk \in {"ok", "fail"} :
          ServiceGetApplicationsByCategory(category, in, disk)
    \/ \E in \in ReadInputs, disk \in {"ok", "fail"} : ServiceGetDockerReadyApplications(in, disk)
    \/ \E app \in MdSampleApplications, query \in Queries : MdMatchesSearchCall(app, query)
    \/ Tick

SpecRead == InitRead /\ [][NextRead]_vars

\* the state all calls of the utilities start from
InitUtil ==
    /\ now = 0
    /\ sameFile = TRUE
    /\ files = [p \in {"svc", "gh"} |-> NoFile]
    /\ applications = << >>
    /\ last = NoCall
    /\ cacheDir = "dir"
    /\ entries = [k \in WrapKeys |-> NoEntry]
    /\ wlast = NoWrapCall
    /\ md = NewParser("MarkdownParser")
    /\ plast = NoParseCall
    /\ vlast = NoValidation
    /\ scan = NoScan

NextValidate == \E port \in PortArguments : ValidatePortMappingCall(port)

SpecValidate == InitUtil /\ [][NextValidate]_vars

NextScan ==
    \/ \E start_port \in ScanPorts, free \in SUBSET ScanPorts :
          GetAvailablePortCall(start_port, free)
    \/ ScanStep

\* a call that has begun runs on: nothing else runs in the thread of the call
SpecScan == InitUtil /\ [][NextScan]_vars /\ WF_vars(ScanStep)

Init ==
    /\ now = 0
    /\ sameFile \in BOOLEAN
    /\ files \in [{"svc", "gh"} -> FoundFiles]
    /\ (sameFile => files["gh"] = NoFile)
    /\ applications = << >>
    /\ last = NoCall
    /\ cacheDir = "dir"
    /\ entries = [k \in WrapKeys |-> NoEntry]
    /\ wlast = NoWrapCall
    /\ md = NewParser("MarkdownParser")
    /\ plast = NoParseCall
    /\ vlast = NoValidation
    /\ scan = NoScan

Next ==
    \/ \E force \in BOOLEAN, in \in Inputs, disk \in {"ok", "fail"} :
          GetApplications(force, in, disk)
    \/ \E in \in Inputs, disk \in {"ok", "fail"} : LoadApplicationsCall(in, disk)
    \/ ClearServiceCache
    \/ Tick

Spec == Init /\ [][Next]_vars

(***************************************************************************)
(* The claims about ParserService and GithubParser, checked under Spec.    *)
(* A call leaves the clock alone, so now is also the time of the last call *)
(* and last.pre holds the files it found.                                  *)
(***************************************************************************)
\* a file _load_cache can decode: the object with both members and whole records
WellFormedGh(f) ==
    /\ f.exists
    /\ f.data.json = "object"
    /\ {"timestamp", "applications"} \subseteq f.data.keys
    /\ \A i \in 1..Len(f.data.items) : FieldNames \subseteq DOMAIN f.data.items[i]

\* a file _load_from_cache can decode: a list of whole records (or nothing to iterate)
WellFormedSvc(f) ==
    /\ f.exists
    /\ \/ /\ f.data.json = "array"
          /\ \A i \in 1..Len(f.data.items) : DOMAIN f.data.items[i] = FieldNames
       \/ /\ f.data.json = "object"
          /\ f.data.keys = {}

\* C1: get_applications(force_refresh=True) always fetches the document, and when
\* the network and the disk work it parses it, writes the service cache and
\* returns the freshly parsed applications, whatever the cache files hold.
C1_ForcedRefreshFetches ==
    (last.op = "get_applications" /\ last.force) =>
        /\ last.fetched
        /\ (last.net = "ok" /\ last.disk = "ok") =>
              /\ last.outcome = "returned"
              /\ last.parsed
              /\ last.wroteSvc
              /\ last.result = last.fresh

\* C2: a get_applications call whose network fetch failed ends with an error;
\* it never returns a list.
C2_FetchFailureRaises ==
    (last.op = "get_applications" /\ last.fetchFailed) => last.outcome = "raised"

\* C3: after a get_applications call whose fetch failed, the service cache file
\* is exactly what it was before the call.
C3_FailureLeavesCache ==
    (last.op = "get_applications" /\ last.fetchFailed) =>
        /\ ~last.wroteSvc
        /\ files[SvcPath] = last.pre[SvcPath]

\* C4: get_applications(force_refresh=False) on a cache file that exists, is
\* younger than cache_ttl and decodes returns the cached list, and fetches,
\* parses and writes nothing.
C4_ValidCacheIsServed ==
    (/\ last.op = "get_applications"
     /\ ~last.force
     /\ WellFormedSvc(last.pre[SvcPath])
     /\ now - last.pre[SvcPath].mtime < CacheTtl) =>
        /\ last.svcHit
        /\ last.outcome = "returned"
        /\ last.result = LoadFromCache(last.pre[SvcPath]).apps
        /\ ~last.fetched /\ ~last.parsed /\ ~last.wroteSvc /\ ~last.wroteGh
        /\ files = last.pre

\* C4 witness: a non-forced call served a non-empty list from a young cache file
C4_Witness ==
    /\ last.op = "get_applications"
    /\ ~last.force
    /\ WellFormedSvc(last.pre[SvcPath])
    /\ now - last.pre[SvcPath].mtime < CacheTtl
    /\ last.svcHit
    /\ Len(last.result) > 0

\* C5: when the service cache file is young enough but does not decode, a
\* non-forced get_applications (network and disk working) fetches, parses,
\* overwrites the cache and returns the fresh applications.
C5_UndecodableCacheRefetches ==
    (/\ last.op = "get_applications"
     /\ ~last.force
     /\ last.pre[SvcPath].exists
     /\ now - last.pre[SvcPath].mtime < CacheTtl
     /\ ~WellFormedSvc(last.pre[SvcPath])
     /\ last.net = "ok" /\ last.disk = "ok") =>
        /\ last.outcome = "returned"
        /\ last.fetched /\ last.parsed /\ last.wroteSvc
        /\ last.result = last.fresh

\* C6: a decodable cache entry is served if and only if now - timestamp < ttl:
\* by GithubParser._load_cache against cache_expiry and by
\* ParserService._is_cache_valid against cache_ttl.
C6_ValidIffYoungerThanTtl ==
    /\ (last.op = "load_applications" /\ WellFormedGh(last.pre[GhPath])) =>
          (last.ghHit <=> now - last.pre[GhPath].data.timestamp < CacheExpiry)
    /\ (last.op = "get_applications" /\ ~last.force /\ WellFormedSvc(last.pre[SvcPath])) =>
          (last.svcHit <=> now - last.pre[SvcPath].mtime < CacheTtl)

\* C7: what _save_cache wrote, _load_cache reads back as the saved list at any
\* time within cache_expiry; what _fetch_and_cache wrote, _load_from_cache
\* reads back as the saved list while _is_cache_valid holds (within cache_ttl).
C7_SaveLoadRoundTrip ==
    /\ (last.op = "load_applications" /\ last.wroteGh) =>
          \A t \in now..(now + CacheExpiry - 1) :
              LoadCache(files[GhPath], t) =
                  [hit |-> TRUE, raised |-> FALSE, apps |-> last.result]
    /\ (last.op = "get_applications" /\ last.wroteSvc) =>
          \A t \in now..(now + CacheTtl - 1) :
              /\ IsCacheValid(files[SvcPath], t)
              /\ LoadFromCache(files[SvcPath]) = [raised |-> FALSE, apps |-> last.result]

\* C7 witness: a list of two applications, with null and non-null optional
\* fields, was saved by _save_cache
C7_Witness ==
    /\ last.op = "load_applications"
    /\ last.wroteGh
    /\ Len(last.result) = 2
    /\ last.result[1].language = None
    /\ last.result[2].language # None
    /\ last.result[2].docker_url # None

\* C8: on a cache file that is missing, not JSON, without the timestamp /
\* applications structure or with a broken record, _load_cache does not raise
\* and load_applications does what it does on a miss: it fetches and, the
\* network and the disk working, parses, saves and returns the parsed list.
C8_LoadCacheSwallows ==
    (last.op = "load_applications" /\ ~WellFormedGh(last.pre[GhPath])) =>
        /\ ~last.loadRaised
        /\ ~last.ghHit
        /\ last.fetched
        /\ (last.net = "ok" /\ last.disk = "ok") =>
              /\ last.parsed /\ last.wroteGh
              /\ last.result = last.fresh
              /\ applications = last.fresh
              /\ files[GhPath] = SaveCache(last.fresh, now)

\* C8 witness: load_applications found a cache file with a broken record and
\* returned a freshly parsed, non-empty list
C8_Witness ==
    /\ last.op = "load_applications"
    /\ last.pre[GhPath].exists
    /\ last.pre[GhPath].data.json = "object"
    /\ \E i \in 1..Len(last.pre[GhPath].data.items) :
          ~(FieldNames \subseteq DOMAIN last.pre[GhPath].data.items[i])
    /\ last.fetched
    /\ Len(last.result) > 0

\* in every application of the list, a docker_url comes with docker_ready
UrlOnlyIfReady(apps) ==
    \A i \in 1..Len(apps) : apps[i].docker_url # None => apps[i].docker_ready = TRUE

\* C13: in every application parse_content produced, and in every application
\* held in memory, returned by a call or read back from either cache file
\* after any sequence of parse, save and load, docker_url is non-null only if
\* docker_ready is true.
C13_DockerUrlImpliesReady ==
    /\ UrlOnlyIfReady(applications)
    /\ UrlOnlyIfReady(last.fresh)
    /\ UrlOnlyIfReady(last.result)
    /\ \A p \in {"svc", "gh"} :
          /\ LoadCache(files[p], now).hit => UrlOnlyIfReady(LoadCache(files[p], now).apps)
          /\ (files[p].exists /\ ~LoadFromCache(files[p]).raised) =>
                UrlOnlyIfReady(LoadFromCache(files[p]).apps)

\* C13 witness: an application with a docker_url was parsed, saved and read
\* back from the service cache
C13_Witness ==
    /\ last.op = "get_applications"
    /\ last.svcHit
    /\ \E i \in 1..Len(last.result) :
          last.result[i].docker_url # None /\ last.result[i].docker_ready = TRUE

(***************************************************************************)
(* The claims about cache_result and clear_cache, checked under SpecWrap.  *)
(* wlast.pre and wlast.preDir are the entries and the directory the last   *)
(* call found.                                                             *)
(***************************************************************************)
\* C9: with the cache directory usable, a wrapper call that finds a decodable
\* entry of its key younger than ttl returns the stored value, invokes the
\* function zero times and changes no entry; a call that finds no entry or
\* one of age ttl or more, with a function that returns a JSON value and a
\* disk that takes the write, invokes the function once, returns its result
\* and leaves exactly that result, dated now, as the entry of its key.
C9_CacheResult ==
    LET k == wlast.key
        young == wlast.pre[k].exists /\ now - wlast.pre[k].mtime < WrapTtl
    IN  (wlast.op = "wrapper" /\ wlast.preDir # "file") =>
            /\ (young /\ wlast.pre[k].json) =>
                  /\ wlast.outcome = "returned"
                  /\ wlast.result = wlast.pre[k].v
                  /\ wlast.calls = 0
                  /\ entries = wlast.pre
            /\ (~young /\ wlast.first = "value" /\ wlast.disk = "ok") =>
                  /\ wlast.outcome = "returned"
                  /\ wlast.calls = 1
                  /\ entries[k] = ValueEntry(now, wlast.result)
                  /\ \A j \in WrapKeys \ {k} : entries[j] = wlast.pre[j]

\* C9 witness: a call found an expired entry, invoked the function and put
\* another value in the entry's place
C9_Witness ==
    /\ wlast.op = "wrapper"
    /\ wlast.pre[wlast.key].exists
    /\ wlast.pre[wlast.key].json
    /\ now - wlast.pre[wlast.key].mtime >= WrapTtl
    /\ wlast.calls = 1
    /\ wlast.stored
    /\ entries[wlast.key].v # wlast.pre[wlast.key].v

C11_CacheFailureFallsBack ==
    LET k == wlast.key
        young == wlast.pre[k].exists /\ now - wlast.pre[k].mtime < WrapTtl
        cacheFailed ==
            \/ wlast.preDir = "file"
            \/ (young /\ ~wlast.pre[k].json)
            \/ /\ wlast.preDir # "file" /\ ~young /\ wlast.f1.kind # "raise"
               /\ (wlast.disk = "fail" \/ wlast.f1.kind = "unserializable")
        f == IF wlast.preDir = "file" \/ young THEN wlast.f1 ELSE wlast.f2
    IN  (wlast.op = "wrapper" /\ cacheFailed) =>
            /\ wlast.calls >= 1
            /\ (f.kind # "raise") => (wlast.outcome = "returned" /\ wlast.result = f.v)
            /\ (f.kind = "raise") => wlast.outcome = "raised"

\* C11 witness: the cache path is a file, and the call returned what the
\* function returned
C11_Witness ==
    /\ wlast.op = "wrapper"
    /\ wlast.preDir = "file"
    /\ wlast.f1 = [kind |-> "value", v |-> "v1"]
    /\ wlast.outcome = "returned"
    /\ wlast.result = "v1"

\* C12: clear_cache on a cache path that does not exist or is not a directory
\* raises CacheError and deletes nothing, with a key and without one.
C12_ClearCacheRefusesBadPath ==
    (wlast.op = "clear_cache" /\ wlast.preDir \in {"missing", "file"}) =>
        /\ wlast.outcome = "raised"
        /\ wlast.deleted = {}
        /\ entries = wlast.pre
        /\ cacheDir = wlast.preDir

\* C12 witness: clear_cache("a") on a missing directory raised
C12_Witness ==
    /\ wlast.op = "clear_cache"
    /\ wlast.key = "a"
    /\ wlast.preDir = "missing"
    /\ wlast.outcome = "raised"

(***************************************************************************)
(* The claims about parse_content and the Docker heuristic, checked under  *)
(* SpecParse.  plast.content is the document of the last call, plast.pre   *)
(* the instance it found.                                                  *)
(***************************************************************************)
\* 'docker' in description.lower()
MentionsDocker(description) ==
    Lower(description) \in {"runs in docker", "docker ready",
                            "image at hub.docker.com/r/acme/app",
                            "on hub.docker.com/r/acme/app and ghcr.io/acme/app"}

\* the description holds neither hub.docker.com/r/<org>/<repo> nor ghcr.io/<org>/<repo>
NoRegistryReference(description) ==
    description \notin {"Image at hub.docker.com/r/acme/app", "Image at ghcr.io/acme/app",
                        "On hub.docker.com/r/acme/app and ghcr.io/acme/app"}

GhParsed == plast.op = "parse_content" /\ plast.impl = "github_parser.GithubParser"

\* C14 (as stated): every application parse_content built from a description
\* that contains "docker" in any letter case and no registry reference has
\* docker_ready = true and docker_url = null, whatever its repository URL.
C14_KeywordAloneGivesNoUrl ==
    GhParsed =>
        \A i \in 1..Len(applications) :
            (/\ MentionsDocker(applications[i].description)
             /\ NoRegistryReference(applications[i].description)) =>
                /\ applications[i].docker_ready = TRUE
                /\ applications[i].docker_url = None

\* C14 (amended): such an application has docker_ready = true, and it has
\* docker_url = null when its repository URL does not contain 'dockerfile' and
\* the probe of the repository finds no Docker file; a URL that contains
\* 'dockerfile' is itself the docker_url, and a GitHub repository in which the
\* probe finds a Docker file (a Dockerfile or a compose file) gives
\* ghcr.io/<org>/<repo>.
C14_KeywordAloneGivesUrlFromRepository ==
    GhParsed =>
        \A i \in 1..Len(applications) :
            LET a == applications[i] IN
            (MentionsDocker(a.description) /\ NoRegistryReference(a.description)) =>
                /\ a.docker_ready = TRUE
                /\ a.docker_url =
                      IF Lower(a.repository_url) = "https://app3.com/dockerfile"
                        THEN a.repository_url
                      ELSE IF /\ a.repository_url = "https://github.com/acme/tool"
                              /\ plast.probes[1].kind = "http"
                              /\ plast.probes[1].status = 200
                              /\ \E name \in plast.probes[1].names :
                                    Lower(name) \in {"dockerfile", "docker-compose.yml",
                                                     "docker-compose.yaml"}
                        THEN "ghcr.io/acme/tool"
                      ELSE None

\* C14 witness: "Runs in Docker" with a GitHub repository in which the probe
\* found no Docker file: ready, without a docker_url
C14_Witness ==
    /\ GhParsed
    /\ \E i \in 1..Len(applications) :
          /\ applications[i].description = "Runs in Docker"
          /\ applications[i].repository_url = "https://github.com/acme/tool"
          /\ applications[i].docker_ready = TRUE
          /\ applications[i].docker_url = None

\* C15: the docker_url of a parsed application follows the first rule that
\* applies: a hub.docker.com/r/<org>/<repo> in the description gives
\* https://hub.docker.com/r/<org>/<repo>; otherwise a ghcr.io/<org>/<repo> in
\* the description is taken as it stands; otherwise a repository URL that
\* contains 'dockerfile' in any letter case is the docker_url; and in each of
\* the three cases the application is ready.
C15_ExtractionPriority ==
    GhParsed =>
        \A i \in 1..Len(applications) :
            LET a == applications[i]
                hub == a.description \in {"Image at hub.docker.com/r/acme/app",
                                          "On hub.docker.com/r/acme/app and ghcr.io/acme/app"}
                ghcr == a.description \in {"Image at ghcr.io/acme/app",
                                           "On hub.docker.com/r/acme/app and ghcr.io/acme/app"}
                named == a.repository_url \in {"https://app3.com/Dockerfile"}
            IN  /\ hub => (a.docker_url = "https://hub.docker.com/r/acme/app"
                             /\ a.docker_ready = TRUE)
                /\ (~hub /\ ghcr) => (a.docker_url = "ghcr.io/acme/app"
                                        /\ a.docker_ready = TRUE)
                /\ (~hub /\ ~ghcr /\ named) => (a.docker_url = a.repository_url
                                                  /\ a.docker_ready = TRUE)

\* C15 witness: a description with both references and a repository URL that
\* names a Dockerfile: the Docker Hub reference wins
C15_Witness ==
    /\ GhParsed
    /\ \E i \in 1..Len(applications) :
          /\ applications[i].description = "On hub.docker.com/r/acme/app and ghcr.io/acme/app"
          /\ applications[i].repository_url = "https://app3.com/Dockerfile"
          /\ applications[i].docker_url = "https://hub.docker.com/r/acme/app"

\* C19: a parse_content call on an instance of MarkdownParser or of the
\* GithubParser of markdown_parser.py that has parsed before and was not reset
\* since leaves the stored applications and the category map as they were.
C19_SecondParseIsNoOp ==
    (/\ plast.op = "parse_content"
     /\ plast.impl \in {"MarkdownParser", "GithubParser"}
     /\ (plast.pre.loaded \/ plast.pre.applications # << >>
                          \/ plast.pre.categories # << >>)) =>
        /\ md.applications = plast.pre.applications
        /\ md.categories = plast.pre.categories

\* C20: parse_content of each of the three classes, on a new instance and a
\* document that is one entry line without a header above it, stores no
\* application and gives exactly one warning.
C20_EntryBeforeHeaderWarns ==
    (/\ plast.op = "parse_content"
     /\ plast.content = UncategorizedDocument
     /\ plast.pre = NewParser(plast.impl)) =>
        /\ plast.result = << >>
        /\ plast.warnings = 1

(***************************************************************************)
(* The claims about the reads of the catalog, checked under SpecRead.      *)
(* last.catalog is the list the read worked on, last.preApps and last.pre  *)
(* are self.applications and the files before the call.                    *)
(***************************************************************************)
\* the lower-cased query is a substring of the lower-cased name, description,
\* language (none counting as "") or category
QueryMatches(app, query) ==
    LET q == Lower(query) IN
    \/ Contains(Lower(app.name), q)
    \/ Contains(Lower(app.description), q)
    \/ Contains(IF app.language = None THEN "" ELSE Lower(app.language), q)
    \/ Contains(Lower(app.category), q)

SearchOps == {"GithubParser.search_applications", "ParserService.search_applications"}

CategoryOps == {"GithubParser.get_applications_by_category",
                "ParserService.get_applications_by_category"}

ReadOps == SearchOps \cup CategoryOps \cup
           {"GithubParser.get_docker_ready_applications",
            "ParserService.get_docker_ready_applications"}

\* C16: a search returns, in catalog order, exactly the applications the query
\* matches in name, description, language or category, letter case ignored:
\* search_applications of GithubParser and of ParserService, and
\* matches_search of both Application classes.
C16_SearchMatchesFourFields ==
    /\ (last.op \in SearchOps /\ last.outcome = "returned") =>
          last.result = SelectSeq(last.catalog, LAMBDA app : QueryMatches(app, last.arg))
    /\ (plast.op = "matches_search") =>
          plast.result = SelectSeq(plast.preApps, LAMBDA app : QueryMatches(app, plast.query))

\* C17: a read by category returns exactly the applications whose category
\* is the given name, letter case ignored, on GithubParser and on ParserService.
C17_ByCategoryIgnoresCase ==
    (last.op \in CategoryOps /\ last.outcome = "returned") =>
        last.result = SelectSeq(last.catalog, LAMBDA app : Lower(app.category) = Lower(last.arg))

\* C18: after search, by-category and Docker-ready reads, on GithubParser or
\* on ParserService, self.applications and the cache files are what they were
\* before the call, and the call fetched no document.
C18_ReadsArePure ==
    (last.op \in ReadOps) =>
        /\ applications = last.preApps
        /\ files = last.pre
        /\ ~last.fetched

(***************************************************************************)
(* The claims about the lines of a document, checked under SpecParse.      *)
(* plast.content is the document of the last parse_content call and        *)
(* plast.result the applications the instance holds after it.  The names   *)
(* of the entries of a document are distinct, so the application of an     *)
(* entry line is the one that has its name.                                *)
(***************************************************************************)
\* a parse_content call of one of the two GithubParser classes on an
\* instance that held no application
GhClassParse ==
    /\ plast.op = "parse_content"
    /\ plast.impl \in {"GithubParser", "github_parser.GithubParser"}
    /\ plast.pre.applications = << >>

\* the '##' and '###' headings above line k
CategoryHeaders(content, k) ==
    {j \in 1..(k - 1) : content[j].kind = "heading" /\ content[j].level \in {2, 3}}

NearestHeader(content, k) ==
    CHOOSE j \in CategoryHeaders(content, k) : \A m \in CategoryHeaders(content, k) : m <= j

\* C21: every application parse_content of a GithubParser class produces has
\* a non-empty category, the title (without its outer brackets) of the
\* nearest '##' or '###' heading above its entry line.
C21_CategoryIsNearestHeader ==
    GhClassParse =>
        \A n \in 1..Len(plast.result) :
            /\ plast.result[n].category \notin {"", None}
            /\ \E k \in 1..Len(plast.content) :
                  /\ plast.content[k].kind = "entry"
                  /\ plast.content[k].name = plast.result[n].name
                  /\ CategoryHeaders(plast.content, k) # {}
                  /\ plast.result[n].category =
                        plast.content[NearestHeader(plast.content, k)].title

\* line k lies between a license or table-of-contents header and the next
\* line that starts with '#'
InSpecialSection(content, k) ==
    \E j \in 1..(k - 1) :
        /\ IsLicenseHeader(content[j]) \/ IsTocHeader(content[j])
        /\ \A m \in (j + 1)..(k - 1) : content[m].kind # "heading"

\* C23: parse_content of each of the three classes creates no application
\* from a line between a license or table-of-contents header and the next
\* line that starts with '#'.
C23_NoApplicationFromSpecialSection ==
    (plast.op = "parse_content" /\ plast.pre.applications = << >> /\ ~plast.pre.loaded) =>
        \A k \in 1..Len(plast.content) :
            (plast.content[k].kind = "entry" /\ InSpecialSection(plast.content, k)) =>
                \A n \in 1..Len(plast.result) :
                    plast.result[n].name # plast.content[k].name

\* the document without the lines that match no pattern
WithoutUnmatched(content) == SelectSeq(content, LAMBDA l : l.kind \in {"heading", "entry"})

\* the class impl has a current category at line k, outside of a license
\* section and of a table of contents
HasCurrentCategory(impl, content, k) ==
    IF impl = "github_parser.GithubParser"
      THEN \E j \in 1..(k - 1) : content[j].kind = "heading" /\ content[j].level >= 3
      ELSE /\ \E j \in 1..(k - 1) :
                /\ content[j].kind = "heading"
                /\ ~IsLicenseHeader(content[j]) /\ ~IsTocHeader(content[j])
           /\ ~InSpecialSection(content, k)

\* the names of the entry lines that have a current category, in document order
CategorisedEntryNames(impl, content) ==
    LET sel == SelectSeq([k \in 1..Len(content) |-> k],
                         LAMBDA k : /\ content[k].kind = "entry"
                                    /\ HasCurrentCategory(impl, content, k))
    IN  [n \in 1..Len(sel) |-> content[sel[n]].name]

\* what the class impl makes of a document on a new instance
ParseOf(impl, content, probes) ==
    IF impl = "github_parser.GithubParser" THEN ParseContent(content, probes)
    ELSE MdParseContent(NewParser(impl), content).parser.applications

\* C24: lines that match no pattern neither end nor shorten the parse of a
\* GithubParser class: the applications are those of the document without
\* these lines, one for each entry line that has a current category, in
\* document order.
C24_UnmatchedLinesAreSkipped ==
    GhClassParse =>
        /\ plast.result = ParseOf(plast.impl, WithoutUnmatched(plast.content), plast.probes)
        /\ [n \in 1..Len(plast.result) |-> plast.result[n].name]
             = CategorisedEntryNames(plast.impl, plast.content)

\* a parse that met a malformed line before, between and after two entries
\* and produced both
C24_Witness ==
    /\ GhClassParse
    /\ Len(plast.result) = 2
    /\ \E i, j, k \in 1..Len(plast.content) :
          /\ i < j /\ j < k
          /\ plast.content[i].kind = "entry"
          /\ plast.content[j].kind = "malformed"
          /\ plast.content[k].kind = "entry"
          /\ plast.content[Len(plast.content)].kind = "malformed"

(***************************************************************************)
(* The claim about validate_port_mapping, checked under SpecValidate.      *)
(***************************************************************************)
\* the argument names ports of 1..65535 only: an integer port, or a
\* 'host:container' string with a number of 1..65535 on both sides
NamesValidPorts(port) ==
    \/ port.type = "int" /\ port.value \in 1..65535
    \/ /\ port.type = "str"
       /\ Len(port.parts) = 2
       /\ \A i \in 1..2 : port.parts[i].numeric /\ port.parts[i].value \in 1..65535

\* C22: validate_port_mapping returns a mapping exactly for an integer port
\* of 1..65535 and for a 'host:container' string with both sides in 1..65535,
\* raises ValidationError for every other argument but None, and returns no
\* mapping with a side that is not a port of 1..65535.
C22_AcceptsExactlyValidPorts ==
    (vlast.op = "validate_port_mapping" /\ vlast.port.type # "None") =>
        /\ vlast.outcome = (IF NamesValidPorts(vlast.port) THEN "returned"
                            ELSE "ValidationError")
        /\ vlast.outcome = "returned" =>
              /\ vlast.host.numeral /\ vlast.host.n \in 1..65535
              /\ vlast.container.numeral /\ vlast.container.n \in 1..65535

(***************************************************************************)
(* The claim about _get_available_port, checked under SpecScan.            *)
(***************************************************************************)
\* the ports from start_port to the end of the range that can be bound
ScanCandidates ==
    {p \in scan.free : scan.start_port <= p /\ p <= default_port_range[2]}

\* what a finished call gave is the smallest candidate, or there was none
ScanGaveSmallestCandidate ==
    /\ scan.pc = "returned" =>
          /\ scan.result \in ScanCandidates
          /\ \A q \in ScanCandidates : scan.result <= q
    /\ scan.pc = "PortAllocationError" => ScanCandidates = {}

\* C30: every call of _get_available_port ends; it returns the smallest port
\* p with start_port <= p <= default_port_range[1] that can be bound, and
\* raises PortAllocationError when there is none, as when start_port is
\* beyond the range.
C30_ScanEndsWithSmallestFreePort ==
    /\ []ScanGaveSmallestCandidate
    /\ (scan.pc = "scanning") ~> (scan.pc \in {"returned", "PortAllocationError"})

\* a call that found the ports before the last one of the range taken and
\* returned the last one, though a port beyond the range was free as well
C30_Witness ==
    /\ scan.pc = "returned"
    /\ scan.start_port < scan.result
    /\ scan.result = default_port_range[2]
    /\ \E p \in scan.free : p > default_port_range[2]

(***************************************************************************)
(* The claims about what one call does to the caches, checked under Spec   *)
(* (get_applications) and under SpecWrap (cache_result).                   *)
(***************************************************************************)
\* the cache files the last call wrote: GithubParser._save_cache, and the
\* json.dump of ParserService._fetch_and_cache
CacheWrites == (IF last.wroteGh THEN 1 ELSE 0) + (IF last.wroteSvc THEN 1 ELSE 0)

\* C25: one get_applications call is CheckCache and then either a hit that
\* returns, or Fetch, Parse, Persist: it fetches the document at most once,
\* parses at most once and writes a cache file at most once.
C25_OneFetchOneParseOneWrite ==
    (last.op = "get_applications") =>
        /\ last.svcHit => (~last.fetched /\ ~last.parsed /\ CacheWrites = 0)
        /\ last.parsed => last.fetched
        /\ CacheWrites <= 1

\* C28: a call of a function wrapped by cache_result invokes the function at
\* most once, whether or not the cache read, the cache write or the function
\* fails.
C28_WrappedFunctionCalledAtMostOnce ==
    (wlast.op = "wrapper") => wlast.calls <= 1

\* C29: under the default settings, where the service and its parser write
\* the same file, after a get_applications call that returned the file holds
\* a record _load_from_cache decodes, young enough for _is_cache_valid; and
\* a non-forced call that finds such a file returns its list and fetches
\* nothing.
C29_ReturnedCallLeavesServableCache ==
    (sameFile /\ last.op = "get_applications") =>
        /\ last.outcome = "returned" =>
              /\ files[SvcPath].exists
              /\ ~LoadFromCache(files[SvcPath]).raised
              /\ LoadFromCache(files[SvcPath]).apps = last.result
              /\ IsCacheValid(files[SvcPath], now)
        /\ (~last.force /\ IsCacheValid(last.pre[SvcPath], now)
              /\ ~LoadFromCache(last.pre[SvcPath]).raised) =>
              /\ last.svcHit /\ ~last.fetched
              /\ last.result = LoadFromCache(last.pre[SvcPath]).apps

\* a call under the default settings fetched, the parser wrote its record
\* and the service wrote its list over it, into the same file
C29_Witness ==
    /\ sameFile /\ last.op = "get_applications" /\ last.outcome = "returned"
    /\ last.fetched /\ last.wroteGh /\ last.wroteSvc
    /\ Len(last.result) > 0
    /\ files[SvcPath].data.json = "array"

(***************************************************************************)
(* The claims about the repository probe, checked under SpecParse through  *)
(* parse_content of github_parser.py.  plast.probes holds the answer the   *)
(* probes of the call got.                                                 *)
(***************************************************************************)
\* no rule before the probe applies to the application: no keyword and no
\* registry reference in the description, no 'dockerfile' in the URL
OnlyTheProbeCanTell(app) ==
    /\ IsGithubUrl(app.repository_url)
    /\ ~MentionsDocker(app.description)
    /\ NoRegistryReference(app.description)
    /\ Lower(app.repository_url) # "https://app3.com/dockerfile"

\* the probe failed: the request raised, the status was not 200, or the body
\* was no listing
ProbeFailed(resp) ==
    \/ resp.kind \in {"error", "malformed"}
    \/ resp.kind = "http" /\ resp.status # 200

\* C26: a probe that fails raises nothing and counts as 'no Docker files
\* found': the application it was made for is not Docker-ready and has no
\* docker_url, and parse_content goes on, giving one application for every
\* entry line that has a current category.
C26_FailedProbeCountsAsNotFound ==
    (GhParsed /\ \A i \in 1..3 : ProbeFailed(plast.probes[i])) =>
        /\ \A n \in 1..Len(plast.result) :
              OnlyTheProbeCanTell(plast.result[n]) =>
                  /\ plast.result[n].docker_ready = FALSE
                  /\ plast.result[n].docker_url = None
        /\ [n \in 1..Len(plast.result) |-> plast.result[n].name]
             = CategorisedEntryNames(plast.impl, plast.content)

\* the listing was malformed, the probed entry is not ready, and the entry
\* after it was parsed
C26_Witness ==
    /\ GhParsed
    /\ \A i \in 1..3 : plast.probes[i].kind = "malformed"
    /\ Len(plast.result) = 2
    /\ OnlyTheProbeCanTell(plast.result[1])
    /\ plast.result[1].docker_ready = FALSE
    /\ plast.result[2].name = "A"

\* the listing has a Dockerfile, a compose file, or a directory .docker or
\* docker, letter case ignored
ListingShowsDocker(resp) ==
    /\ resp.kind = "http" /\ resp.status = 200
    /\ \E name \in resp.names :
          Lower(name) \in {"dockerfile", "docker-compose.yml", "docker-compose.yaml",
                           ".docker", "docker"}

\* C27: when the listing of a GitHub repository shows a Dockerfile, a compose
\* file or a directory .docker or docker, and no earlier rule gave a
\* reference, the application is Docker-ready and its docker_url is
\* ghcr.io/<org>/<repo>.
C27_ListingMatchGivesGhcrReference ==
    (GhParsed /\ \A i \in 1..3 : ListingShowsDocker(plast.probes[i])) =>
        \A n \in 1..Len(plast.result) :
            OnlyTheProbeCanTell(plast.result[n]) =>
                /\ plast.result[n].docker_ready = TRUE
                /\ plast.result[n].docker_url
                     = "ghcr.io/" \o OrgRepo(plast.result[n].repository_url)

=============================================================================
